---- MODULE Spec2Model ----
(***************************************************************************)
(* Model of the AI pull-request reviewer: the orchestration in main(), the  *)
(* reply parsing of AIAnalyzer, the comment publishing of                  *)
(* GitHubIntegration, and the config merge and review focus of             *)
(* ConfigManager.                                                           *)
(*                                                                          *)
(* Python strings are sequences of one-character strings, indexed from 0    *)
(* by the helpers below as in Python.  A JSON / Python value is a tagged    *)
(* pair <<tag, payload>>:                                                   *)
(*   <<"null", 0>>        None                                              *)
(*   <<"num", n>>         int                                               *)
(*   <<"str", chars>>     str                                               *)
(*   <<"arr", <<v, ..>>>> list                                              *)
(*   <<"obj", <<<<key, v>>, ..>>>>  dict, in insertion order, keys unique   *)
(***************************************************************************)
EXTENDS Integers, Sequences, FiniteSets, TLC

VARIABLES
    pc,                 \* the position of main()
    args,               \* the parsed command line (after the CI fallback)
    config,             \* the github section of the effective config
    github_token,       \* args.token or GITHUB_TOKEN: TRUE when either is given
    ai_api_key,         \* args.ai_key or AI_API_KEY: TRUE when either is given
    pr_files,           \* the changed files of the PR
    reply,              \* the text of the model's reply (ai_response)
    llm_status,         \* the status code of the LLM response, 0 before it
    review_suggestions, \* the parsed reply
    temp_exists,        \* the temporary document file exists on disk
    temp_created,       \* the run created the temporary document file
    output_written,     \* the review was saved to the --output file
    calls,              \* the network and external-tool calls made, in order
    issue_comments,     \* the summary comments published
    reviews,            \* the reviews submitted
    invoked,            \* which publish operations main() invoked
    exc,                \* the exception being propagated, or "none"
    exit_status,        \* the exit status of the process, -1 while it runs
    default_config,     \* _merge_configs: its first argument
    user_config,        \* _merge_configs: its second argument
    self_config,        \* ConfigManager.config, the effective config
    pr_description,     \* the body of the PR, or None
    review_focus        \* the result of get_review_focus

vars == <<pc, args, config, github_token, ai_api_key, pr_files, reply,
          llm_status, review_suggestions, temp_exists, temp_created,
          output_written, calls, issue_comments, reviews, invoked, exc,
          exit_status, default_config, user_config, self_config,
          pr_description, review_focus>>

\* the state of the ConfigManager
config_vars == <<default_config, user_config, self_config, pr_description,
                 review_focus>>

----------------------------------------------------------------------------
(* Bounds of the model *)

MaxReplyTokens == 4

MaxSuggestions == 2

MaxLineLen == 3

MaxLineInt == 11

\* the settings of a user config are None or an int of 1..MaxConfigValue
MaxConfigValue == 2

\* a free-form PR description has at most MaxDescTokens pieces
MaxDescTokens == 4

----------------------------------------------------------------------------
(* Python str primitives *)

Min(S) == CHOOSE x \in S : \A y \in S : x <= y

Max(S) == CHOOSE x \in S : \A y \in S : x >= y

WHITESPACE == {" ", "\n", "\t", "\r"}

DIGITS == {"0", "1", "2", "3", "4", "5", "6", "7", "8", "9"}

DigitVal(c) ==
    CASE c = "0" -> 0 [] c = "1" -> 1 [] c = "2" -> 2 [] c = "3" -> 3
      [] c = "4" -> 4 [] c = "5" -> 5 [] c = "6" -> 6 [] c = "7" -> 7
      [] c = "8" -> 8 [] c = "9" -> 9

DigitChar(d) ==
    CASE d = 0 -> "0" [] d = 1 -> "1" [] d = 2 -> "2" [] d = 3 -> "3"
      [] d = 4 -> "4" [] d = 5 -> "5" [] d = 6 -> "6" [] d = 7 -> "7"
      [] d = 8 -> "8" [] d = 9 -> "9"

\* sub occurs in s at the 0-based offset i
OccursAt(s, sub, i) ==
    /\ i >= 0
    /\ i + Len(sub) <= Len(s)
    /\ \A k \in 1..Len(sub) : s[i + k] = sub[k]

\* str.find: the lowest 0-based offset of sub in s, or -1
Find(s, sub) ==
    LET hits == {i \in 0..Len(s) : OccursAt(s, sub, i)}
    IN  IF hits = {} THEN -1 ELSE Min(hits)

\* str.rfind: the highest 0-based offset of sub in s, or -1
RFind(s, sub) ==
    LET hits == {i \in 0..Len(s) : OccursAt(s, sub, i)}
    IN  IF hits = {} THEN -1 ELSE Max(hits)

\* s[a:b] for 0 <= a, 0 <= b
Slice(s, a, b) ==
    LET hi == IF b > Len(s) THEN Len(s) ELSE b
        n  == IF hi > a THEN hi - a ELSE 0
    IN  [k \in 1..n |-> s[a + k]]

\* str.strip()
Strip(s) ==
    LET keep == {i \in 1..Len(s) : s[i] \notin WHITESPACE}
    IN  IF keep = {} THEN <<>> ELSE Slice(s, Min(keep) - 1, Max(keep))

\* stands for U+00B2 (superscript two): a character of the Unicode category
\* No, which str.isdigit() accepts and int() rejects
SUPERSCRIPT_TWO == "^"

\* str.isdigit(): non-empty and every character a digit of some kind
IsDigit(s) == Len(s) > 0 /\ \A k \in 1..Len(s) : s[k] \in DIGITS \cup {SUPERSCRIPT_TWO}

\* the texts of digits int() turns into a number: decimal digits only
IsDecimal(s) == Len(s) > 0 /\ \A k \in 1..Len(s) : s[k] \in DIGITS

RECURSIVE DigitsToInt(_)
\* the value int(s) gives a string of decimal digits
DigitsToInt(s) ==
    IF Len(s) = 0 THEN 0
    ELSE 10 * DigitsToInt(SubSeq(s, 1, Len(s) - 1)) + DigitVal(s[Len(s)])

RECURSIVE NatToStr(_)
NatToStr(n) ==
    IF n < 10 THEN <<DigitChar(n)>>
    ELSE Append(NatToStr(n \div 10), DigitChar(n % 10))

\* str(n) for an int
IntToStr(n) == IF n < 0 THEN <<"-">> \o NatToStr(0 - n) ELSE NatToStr(n)

\* "sub in s" for two strings
Contains(s, sub) == Find(s, sub) # -1

\* s.split(sep)[0] for a one-character separator
SplitFirst(s, sep) ==
    LET at == Find(s, <<sep>>)
    IN  IF at = -1 THEN s ELSE Slice(s, 0, at)

----------------------------------------------------------------------------
(* Python / JSON values *)

None == <<"null", 0>>

Num(n) == <<"num", n>>

Str(s) == <<"str", s>>

Arr(items) == <<"arr", items>>

Obj(pairs) == <<"obj", pairs>>

Unset == <<"unset", 0>>

Tag(v) == v[1]

Val(v) == v[2]

IsDict(v) == Tag(v) = "obj"

IsList(v) == Tag(v) = "arr"

IsStr(v) == Tag(v) = "str"

IsInt(v) == Tag(v) = "num"

\* key in d, for a dict d
HasKey(d, key) == \E k \in 1..Len(Val(d)) : Val(d)[k][1] = key

\* d.get(key, default), for a dict d
DictGet(d, key, default) ==
    IF HasKey(d, key)
    THEN Val(d)[CHOOSE k \in 1..Len(Val(d)) : Val(d)[k][1] = key][2]
    ELSE default

\* d[key] = value on the pair list of a dict: an existing key keeps its place
DictSet(pairs, key, value) ==
    IF \E k \in 1..Len(pairs) : pairs[k][1] = key
    THEN [k \in 1..Len(pairs) |->
            IF pairs[k][1] = key THEN <<key, value>> ELSE pairs[k]]
    ELSE Append(pairs, <<key, value>>)

\* bool(v)
Truthy(v) ==
    CASE Tag(v) = "null" -> FALSE
      [] Tag(v) = "num"  -> Val(v) # 0
      [] OTHER           -> Len(Val(v)) > 0

----------------------------------------------------------------------------
(* json.loads: a recursive-descent parser of the JSON texts over the model's *)
(* alphabet (integers, strings without escapes, null, arrays, objects).      *)

Fail == [ok |-> FALSE, val |-> Unset, next |-> 0]

Ok(v, n) == [ok |-> TRUE, val |-> v, next |-> n]

RECURSIVE SkipWs(_, _)
\* the first position >= i (1-based) that holds no whitespace
SkipWs(s, i) ==
    IF i <= Len(s) /\ s[i] \in WHITESPACE THEN SkipWs(s, i + 1) ELSE i

RECURSIVE DigitsEnd(_, _)
\* the first position >= i that holds no digit
DigitsEnd(s, i) ==
    IF i <= Len(s) /\ s[i] \in DIGITS THEN DigitsEnd(s, i + 1) ELSE i

\* number: -? (0 | [1-9][0-9]*)
ParseNumber(s, i) ==
    LET neg   == i <= Len(s) /\ s[i] = "-"
        first == IF neg THEN i + 1 ELSE i
        stop  == IF first <= Len(s) /\ s[first] = "0"
                 THEN first + 1 ELSE DigitsEnd(s, first)
        n     == DigitsToInt(SubSeq(s, first, stop - 1))
    IN  IF stop = first THEN Fail
        ELSE Ok(Num(IF neg THEN 0 - n ELSE n), stop)

\* string: " chars ", no control character inside
ParseString(s, i) ==
    LET closes == {k \in (i + 1)..Len(s) : s[k] = "\""}
    IN  IF i > Len(s) \/ s[i] # "\"" \/ closes = {} THEN Fail
        ELSE LET close == Min(closes)
                 body  == SubSeq(s, i + 1, close - 1)
             IN  IF \E k \in 1..Len(body) : body[k] \in {"\n", "\t", "\r", "\\"}
                 THEN Fail
                 ELSE Ok(Str(body), close + 1)

RECURSIVE ParseValue(_, _)
RECURSIVE ParseElements(_, _, _)
RECURSIVE ParseMembers(_, _, _)

\* after '[' and at least zero elements parsed into acc: value (, value)* ]
ParseElements(s, i, acc) ==
    LET v == ParseValue(s, SkipWs(s, i))
    IN  IF ~v.ok THEN Fail
        ELSE LET j == SkipWs(s, v.next)
             IN  IF j > Len(s) THEN Fail
                 ELSE IF s[j] = "]" THEN Ok(Arr(Append(acc, v.val)), j + 1)
                 ELSE IF s[j] = "," THEN ParseElements(s, j + 1, Append(acc, v.val))
                 ELSE Fail

\* after '{': "key" : value (, "key" : value)* }
ParseMembers(s, i, acc) ==
    LET k == ParseString(s, SkipWs(s, i))
    IN  IF ~k.ok THEN Fail
        ELSE LET c == SkipWs(s, k.next)
             IN  IF c > Len(s) \/ s[c] # ":" THEN Fail
                 ELSE LET v == ParseValue(s, SkipWs(s, c + 1))
                      IN  IF ~v.ok THEN Fail
                          ELSE LET j    == SkipWs(s, v.next)
                                   acc2 == DictSet(acc, Val(k.val), v.val)
                               IN  IF j > Len(s) THEN Fail
                                   ELSE IF s[j] = "}" THEN Ok(Obj(acc2), j + 1)
                                   ELSE IF s[j] = "," THEN ParseMembers(s, j + 1, acc2)
                                   ELSE Fail

ParseValue(s, i) ==
    IF i > Len(s) THEN Fail
    ELSE IF s[i] = "\"" THEN ParseString(s, i)
    ELSE IF s[i] = "-" \/ s[i] \in DIGITS THEN ParseNumber(s, i)
    ELSE IF OccursAt(s, <<"n", "u", "l", "l">>, i - 1) THEN Ok(None, i + 4)
    ELSE IF s[i] = "["
         THEN LET j == SkipWs(s, i + 1)
              IN  IF j <= Len(s) /\ s[j] = "]" THEN Ok(Arr(<<>>), j + 1)
                  ELSE ParseElements(s, i + 1, <<>>)
    ELSE IF s[i] = "{"
         THEN LET j == SkipWs(s, i + 1)
              IN  IF j <= Len(s) /\ s[j] = "}" THEN Ok(Obj(<<>>), j + 1)
                  ELSE ParseMembers(s, i + 1, <<>>)
    ELSE Fail

\* json.loads(s): <<"ok", value>>, or <<"raise", "JSONDecodeError">>
JsonLoads(s) ==
    LET v == ParseValue(s, SkipWs(s, 1))
    IN  IF v.ok /\ SkipWs(s, v.next) = Len(s) + 1
        THEN <<"ok", v.val>>
        ELSE <<"raise", "JSONDecodeError">>

----------------------------------------------------------------------------
(* Literal texts of the program.  A literal is held as a one-element string *)
(* (its characters are never inspected); the keys of the review dict are    *)
(* spelled out, since they are matched against keys read from JSON text.    *)

K_summary == <<"s", "u", "m", "m", "a", "r", "y">>

K_overall_assessment ==
    <<"o", "v", "e", "r", "a", "l", "l", "_", "a", "s", "s", "e", "s", "s", "m", "e", "n", "t">>

K_suggestions == <<"s", "u", "g", "g", "e", "s", "t", "i", "o", "n", "s">>

K_raw_response == <<"r", "a", "w", "_", "r", "e", "s", "p", "o", "n", "s", "e">>

K_file == <<"f", "i", "l", "e">>

K_line == <<"l", "i", "n", "e">>

K_severity == <<"s", "e", "v", "e", "r", "i", "t", "y">>

K_category == <<"c", "a", "t", "e", "g", "o", "r", "y">>

K_description == <<"d", "e", "s", "c", "r", "i", "p", "t", "i", "o", "n">>

K_suggestion == <<"s", "u", "g", "g", "e", "s", "t", "i", "o", "n">>

\* the backquote character (U+0060), which a TLA+ string cannot hold: the
\* model writes it as the tilde, a character no other text of the model uses
BACKTICK == "~"

FENCE == <<BACKTICK, BACKTICK, BACKTICK>>

JSON_FENCE == FENCE \o <<"j", "s", "o", "n">>

\* the overall_assessment of a degraded result ("cannot be determined")
UNDETERMINED == <<"(undetermined)">>

\* summary of the inner fallback: "the AI reply cannot be parsed as JSON"
NOTICE_NOT_JSON == <<"(the AI reply cannot be parsed as JSON)">>

\* summary of the outer handler: "error while parsing the AI reply: <e>"
NOTICE_PARSE_ERROR == <<"(error while parsing the AI reply)">>

----------------------------------------------------------------------------
(* AIAnalyzer._parse_ai_response *)

Degraded(notice, ai_response) ==
    Obj(<< <<K_summary, Str(notice)>>,
           <<K_overall_assessment, Str(UNDETERMINED)>>,
           <<K_raw_response, Str(ai_response)>> >>)

\* the parser with the raw text of the degraded results trimmed
ParseKeepingTrimmedText(ai_response) ==
    LET json_start == Find(ai_response, JSON_FENCE)
        json_end   == RFind(ai_response, FENCE)
        json_content == Strip(Slice(ai_response, json_start + 7, json_end))
        whole == JsonLoads(ai_response)
        body == IF json_start # -1 /\ json_end # -1
                THEN JsonLoads(json_content)
                ELSE IF whole[1] = "ok" THEN whole
                     ELSE <<"ok", Degraded(NOTICE_NOT_JSON, Strip(ai_response))>>
    IN  IF body[1] = "raise"
        THEN <<"ok", Degraded(NOTICE_PARSE_ERROR, Strip(ai_response))>>
        ELSE body

\* <<"ok", value>> when the function returns, <<"raise", e>> when it raises
_parse_ai_response(ai_response) ==
    LET json_start == Find(ai_response, JSON_FENCE)
        json_end   == RFind(ai_response, FENCE)
        json_content == Strip(Slice(ai_response, json_start + 7, json_end))
        whole == JsonLoads(ai_response)
        \* the body of the outer try
        body == IF json_start # -1 /\ json_end # -1
                THEN JsonLoads(json_content)
                ELSE IF whole[1] = "ok" THEN whole
                     ELSE <<"ok", Degraded(NOTICE_NOT_JSON, ai_response)>>
    IN  IF body[1] = "raise"
        THEN <<"ok", Degraded(NOTICE_PARSE_ERROR, ai_response)>>
        ELSE body

----------------------------------------------------------------------------
(* Python operations on values that the publisher applies *)

Raise(e) == <<"raise", e>>

Return(v) == <<"ok", v>>

Raised(r) == r[1] = "raise"

RECURSIVE PyReprItems(_, _)
RECURSIVE PyRepr(_)
\* repr(v): the text str() gives for a value inside a list or a dict
PyRepr(v) ==
    CASE Tag(v) = "null" -> <<"N", "o", "n", "e">>
      [] Tag(v) = "num"  -> IntToStr(Val(v))
      [] Tag(v) = "str"  -> <<"'">> \o Val(v) \o <<"'">>
      [] Tag(v) = "arr"  -> <<"[">> \o PyReprItems(Val(v), FALSE) \o <<"]">>
      [] Tag(v) = "obj"  -> <<"{">> \o PyReprItems(Val(v), TRUE) \o <<"}">>

\* the items of a list, or the key: value pairs of a dict, joined by ", "
PyReprItems(items, pairs) ==
    IF Len(items) = 0 THEN <<>>
    ELSE LET head == IF pairs
                     THEN PyRepr(Str(items[1][1])) \o <<":", " ">> \o PyRepr(items[1][2])
                     ELSE PyRepr(items[1])
         IN  IF Len(items) = 1 THEN head
             ELSE head \o <<",", " ">> \o PyReprItems(Tail(items), pairs)

\* str(v)
PyStr(v) == IF Tag(v) = "str" THEN Val(v) ELSE PyRepr(v)

\* iter(v): the items a for loop visits, or TypeError
Iterate(v) ==
    CASE Tag(v) = "arr" -> Return(Val(v))
      [] Tag(v) = "str" -> Return([k \in 1..Len(Val(v)) |-> Str(<<Val(v)[k]>>)])
      [] Tag(v) = "obj" -> Return([k \in 1..Len(Val(v)) |-> Str(Val(v)[k][1])])
      [] OTHER          -> Raise("TypeError")

\* key in v, for a key that is a str: <<"ok", TRUE/FALSE>> or TypeError
PyIn(key, v) ==
    CASE Tag(v) = "obj" -> Return(HasKey(v, key))
      [] Tag(v) = "str" -> Return(Contains(Val(v), key))
      [] Tag(v) = "arr" -> Return(\E k \in 1..Len(Val(v)) : Val(v)[k] = Str(key))
      [] OTHER          -> Raise("TypeError")

\* the pieces of a formatted text: a literal of the program, or a value that
\* an f-string (or a concatenation) embeds
Lit(text) == <<"lit", text>>

Fmt(v) == <<"fmt", v>>

----------------------------------------------------------------------------
(* GitHubIntegration._format_review_comment *)

RECURSIVE FormatSuggestions(_, _, _)
\* the loop over enumerate(suggestions, 1), from item i on
FormatSuggestions(items, i, comment) ==
    IF i > Len(items) THEN Return(comment)
    ELSE LET suggestion == items[i]
         IN  IF ~IsDict(suggestion) THEN Raise("AttributeError")
             ELSE LET severity == DictGet(suggestion, K_severity, Str(<<"info">>))
                      category == DictGet(suggestion, K_category, Str(<<"(general)">>))
                      head == <<Lit("### "), Fmt(Num(i)), Lit(". "), Fmt(category),
                                Lit(" ("), Fmt(severity), Lit(")\n\n")>>
                      file_info ==
                          IF HasKey(suggestion, K_file)
                          THEN <<Lit("**file**: <"), Fmt(DictGet(suggestion, K_file, None)), Lit(">")>>
                               \o (IF HasKey(suggestion, K_line)
                                   THEN <<Lit(" **line**: "), Fmt(DictGet(suggestion, K_line, None))>>
                                   ELSE <<>>)
                               \o <<Lit("\n\n")>>
                          ELSE <<>>
                      description ==
                          IF HasKey(suggestion, K_description)
                          THEN <<Fmt(DictGet(suggestion, K_description, None)), Lit("\n\n")>>
                          ELSE <<>>
                      advice ==
                          IF HasKey(suggestion, K_suggestion)
                          THEN <<Lit("**suggestion**: "), Fmt(DictGet(suggestion, K_suggestion, None)),
                                 Lit("\n\n")>>
                          ELSE <<>>
                  IN  FormatSuggestions(items, i + 1,
                                        comment \o head \o file_info \o description \o advice)

_format_review_comment(review) ==
    IF ~IsDict(review) THEN Raise("AttributeError")
    ELSE LET top == <<Lit("# AI code review\n\n"),
                      Lit("**overall assessment**: "),
                      Fmt(DictGet(review, K_overall_assessment, Str(<<"(no assessment)">>))),
                      Lit("\n\n"),
                      Lit("## summary\n\n"),
                      Fmt(DictGet(review, K_summary, Str(<<"(no summary)">>))),
                      Lit("\n\n")>>
             suggestions == DictGet(review, K_suggestions, Arr(<<>>))
             footer == <<Lit("\n---\n*generated by the AI code review tool*")>>
         IN  IF ~Truthy(suggestions) THEN Return(top \o footer)
             ELSE LET items == Iterate(suggestions)
                  IN  IF Raised(items) THEN items
                      ELSE LET body == FormatSuggestions(items[2], 1,
                                                         top \o <<Lit("## suggestions\n\n")>>)
                           IN  IF Raised(body) THEN body
                               ELSE Return(body[2] \o footer)

----------------------------------------------------------------------------
(* GitHubIntegration.post_line_comments *)

\* int(s) for a text that passed isdigit(): the number, or ValueError
IntOfDigits(s) ==
    IF IsDecimal(s) THEN Return(Num(DigitsToInt(s))) ELSE Raise("ValueError")

\* line_number after the line-field handling: None or an int, or ValueError
LineNumber(line_info) ==
    IF (IsInt(line_info) \/ IsStr(line_info)) /\ IsDigit(PyStr(line_info))
    THEN IntOfDigits(PyStr(line_info))
    ELSE IF Contains(PyStr(line_info), <<"-">>)
         THEN LET first == Strip(SplitFirst(PyStr(line_info), "-"))
              IN  IF IsDigit(first) THEN IntOfDigits(first) ELSE Return(None)
         ELSE Return(None)

\* the comment of one suggestion that has a truthy line_number, or TypeError
LineComment(suggestion, line_number) ==
    LET description == DictGet(suggestion, K_description, Str(<<>>))
        advice      == DictGet(suggestion, K_suggestion, None)
        comment_body ==
            <<Lit("**"), Fmt(DictGet(suggestion, K_category, Str(<<"(comment)">>))),
              Lit(" ("), Fmt(DictGet(suggestion, K_severity, Str(<<"(hint)">>))),
              Lit(")**\n\n"), Fmt(description)>>
            \o (IF Truthy(advice)
                THEN <<Lit("\n\n**suggestion**: "), Fmt(advice)>> ELSE <<>>)
    IN  IF ~IsStr(description) THEN Raise("TypeError")
        ELSE Return([path |-> DictGet(suggestion, K_file, None),
                     line |-> Val(line_number),
                     body |-> comment_body])

RECURSIVE FileCommentsWithoutFileCheck(_, _, _)
\* the loop over the suggestions asking for the line key only
FileCommentsWithoutFileCheck(items, i, file_comments) ==
    IF i > Len(items) THEN Return(file_comments)
    ELSE LET suggestion == items[i]
             has_line == PyIn(K_line, suggestion)
         IN  IF Raised(has_line) THEN has_line
             ELSE IF ~has_line[2]
                  THEN FileCommentsWithoutFileCheck(items, i + 1, file_comments)
             ELSE IF ~IsDict(suggestion) THEN Raise("TypeError")
             ELSE LET line_number == LineNumber(DictGet(suggestion, K_line, None))
                  IN  IF Raised(line_number) THEN line_number
                      ELSE IF ~Truthy(line_number[2])
                      THEN FileCommentsWithoutFileCheck(items, i + 1, file_comments)
                      ELSE LET c == LineComment(suggestion, line_number[2])
                           IN  IF Raised(c) THEN c
                               ELSE FileCommentsWithoutFileCheck(items, i + 1,
                                                                 Append(file_comments, c[2]))

RECURSIVE FileComments(_, _, _)
\* the loop over the suggestions, from item i on
FileComments(items, i, file_comments) ==
    IF i > Len(items) THEN Return(file_comments)
    ELSE LET suggestion == items[i]
             has_file == PyIn(K_file, suggestion)
             has_line == PyIn(K_line, suggestion)
         IN  IF Raised(has_file) THEN has_file
             ELSE IF ~(has_file[2] /\ has_line[2])
                  THEN FileComments(items, i + 1, file_comments)
             ELSE IF ~IsDict(suggestion) THEN Raise("TypeError")
             ELSE LET line_number == LineNumber(DictGet(suggestion, K_line, None))
                  IN  IF Raised(line_number) THEN line_number
                      ELSE IF ~Truthy(line_number[2])
                      THEN FileComments(items, i + 1, file_comments)
                      ELSE LET c == LineComment(suggestion, line_number[2])
                           IN  IF Raised(c) THEN c
                               ELSE FileComments(items, i + 1, Append(file_comments, c[2]))

\* the body of the review built by the summary formatting
ReviewBodyAsSummaryComment(review) == _format_review_comment(review)

\* the body of the review: the overall assessment and the summary
ReviewBody(review) ==
    LET summary == DictGet(review, K_summary, Str(<<"(no summary)">>))
    IN  IF ~IsStr(summary) THEN Raise("TypeError")
        ELSE Return(<<Lit("# AI code review\n\n"),
                      Lit("**overall assessment**: "),
                      Fmt(DictGet(review, K_overall_assessment, Str(<<"(no assessment)">>))),
                      Lit("\n\n"),
                      Fmt(summary)>>)

\* the arguments of create_review; submit is FALSE when no review is made
NoReview == [submit |-> FALSE, body |-> <<>>, event |-> "", comments |-> <<>>]

\* post_line_comments after get_pr: <<"ok", NoReview>> when it makes no review,
\* <<"ok", review>> with the arguments of create_review, or <<"raise", e>>
LineReview(review) ==
    IF ~IsDict(review) THEN Raise("AttributeError")
    ELSE LET items == Iterate(DictGet(review, K_suggestions, Arr(<<>>)))
         IN  IF Raised(items) THEN items
             ELSE LET file_comments == FileComments(items[2], 1, <<>>)
                  IN  IF Raised(file_comments) THEN file_comments
                      ELSE IF Len(file_comments[2]) = 0 THEN Return(NoReview)
                      ELSE LET body == ReviewBody(review)
                           IN  IF Raised(body) THEN body
                               ELSE Return([submit |-> TRUE, body |-> body[2],
                                            event |-> "COMMENT",
                                            comments |-> file_comments[2]])

----------------------------------------------------------------------------
(* Inputs: the replies the model may give *)

SeqsUpTo(S, n) == UNION {[1..k -> S] : k \in 0..n}

RECURSIVE Flatten(_)
Flatten(parts) ==
    IF Len(parts) = 0 THEN <<>> ELSE parts[1] \o Flatten(Tail(parts))

RECURSIVE JsonDumpsItems(_, _)
RECURSIVE JsonDumps(_)
\* the compact JSON text of a value
JsonDumps(v) ==
    CASE Tag(v) = "null" -> <<"n", "u", "l", "l">>
      [] Tag(v) = "num"  -> IntToStr(Val(v))
      [] Tag(v) = "str"  -> <<"\"">> \o Val(v) \o <<"\"">>
      [] Tag(v) = "arr"  -> <<"[">> \o JsonDumpsItems(Val(v), FALSE) \o <<"]">>
      [] Tag(v) = "obj"  -> <<"{">> \o JsonDumpsItems(Val(v), TRUE) \o <<"}">>

JsonDumpsItems(items, pairs) ==
    IF Len(items) = 0 THEN <<>>
    ELSE LET head == IF pairs
                     THEN JsonDumps(Str(items[1][1])) \o <<":">> \o JsonDumps(items[1][2])
                     ELSE JsonDumps(items[1])
         IN  IF Len(items) = 1 THEN head
             ELSE head \o <<",">> \o JsonDumpsItems(Tail(items), pairs)

\* the pieces a free-form reply is made of
ReplyTokens == {JSON_FENCE, FENCE, <<BACKTICK>>, <<" ">>, <<"x">>, <<"1">>, <<"\"">>}

\* the free-form replies: every text of at most MaxReplyTokens pieces
FreeReplies == {Flatten(t) : t \in SeqsUpTo(ReplyTokens, MaxReplyTokens)}

LineChars == {"4", "0", "-", " ", "a"}

\* the values of a suggestion's line field
LineValues ==
    {Num(n) : n \in (0 - 1)..MaxLineInt}
    \cup {Str(t) : t \in SeqsUpTo(LineChars, MaxLineLen)}
    \cup {Str(<<"4", "2">>), Str(<<"1", "0", "-", "1", "5">>), Str(<<"a", "b", "c">>)}
    \cup {None, Arr(<<Str(<<"4", "-", "0">>)>>)}
    \cup {Str(<<SUPERSCRIPT_TWO>>), Str(<<"4", SUPERSCRIPT_TWO>>),
          Str(<<SUPERSCRIPT_TWO, "-", "4">>), Str(<<"4", "-", SUPERSCRIPT_TWO>>)}

Suggestion(file, line, description) ==
    Obj((IF file THEN << <<K_file, Str(<<"a">>)>> >> ELSE <<>>)
        \o (IF line = Unset THEN <<>> ELSE << <<K_line, line>> >>)
        \o (IF description = Unset THEN <<>> ELSE << <<K_description, description>> >>))

FullSuggestion ==
    Obj(<< <<K_file, Str(<<"a">>)>>, <<K_line, Str(<<"4", "2">>)>>,
           <<K_severity, Str(<<"h">>)>>, <<K_category, Str(<<"c">>)>>,
           <<K_description, Str(<<"d">>)>>, <<K_suggestion, Str(<<"s">>)>> >>)

\* the entries of a suggestions list: records, and two entries that are none
SuggestionItems ==
    { FullSuggestion,
      Suggestion(TRUE, Str(<<"1", "0", "-", "1", "5">>), Str(<<"d">>)),
      Suggestion(TRUE, Str(<<"a", "b", "c">>), Str(<<"d">>)),
      Suggestion(TRUE, Num(7), Unset),
      Suggestion(TRUE, Num(0), Str(<<"d">>)),
      Suggestion(TRUE, Str(<<SUPERSCRIPT_TWO>>), Str(<<"d">>)),
      Suggestion(TRUE, Unset, Str(<<"d">>)),
      Suggestion(FALSE, Str(<<"4", "2">>), Str(<<"d">>)),
      Suggestion(TRUE, Str(<<"4", "2">>), Num(5)),
      Num(5),
      Str(<<"a", "b">>) }

Review(summary, suggestions) ==
    Obj(<< <<K_summary, summary>>, <<K_overall_assessment, Str(<<"g">>)>> >>
        \o (IF suggestions = Unset THEN <<>> ELSE << <<K_suggestions, suggestions>> >>))

\* the values a reply may carry as JSON
ReviewValues ==
    {Review(Str(<<"o", "k">>), Arr(l)) : l \in SeqsUpTo(SuggestionItems, MaxSuggestions)}
    \cup {Review(Str(<<"o", "k">>), Arr(<<Suggestion(TRUE, l, Str(<<"d">>))>>)) : l \in LineValues}
    \cup {Review(Str(<<"o", "k">>), s) : s \in {Unset, None, Num(0), Num(3), Str(<<"a", "b">>)}}
    \cup {Review(Num(5), Arr(<<FullSuggestion>>)), Obj(<<>>)}
    \cup {Arr(<<>>), Arr(<<Num(1)>>), Num(5), Str(<<"o", "k">>), None}

Fenced(before, text, after) == before \o JSON_FENCE \o <<"\n">> \o text \o <<"\n">> \o FENCE \o after

\* the replies of the LLM endpoint in a run
Replies ==
    {JsonDumps(v) : v \in ReviewValues}
    \cup {Fenced(<<"x", " ">>, JsonDumps(v), <<" ", "x">>) :
            v \in {Review(Str(<<"o", "k">>), Arr(<<>>)), Arr(<<Num(1)>>),
                   Review(Str(<<"o", "k">>), Arr(<<FullSuggestion>>))}}
    \cup {<<>>, <<"x">>, JSON_FENCE \o <<"x">> \o FENCE}

----------------------------------------------------------------------------
(* main(): one run of the tool *)

CommentTypes == {"issue", "review", "other"}

CommentPlacements == {"pr", "line", "other"}

\* the ConfigManager at rest: its functions are run on their own below
ConfigIdle ==
    /\ default_config = Unset
    /\ user_config = Unset
    /\ self_config = Unset
    /\ pr_description = None
    /\ review_focus = Unset

Init ==
    /\ pc = "start"
    /\ args \in [init : BOOLEAN, repo : BOOLEAN, pr : BOOLEAN, output : BOOLEAN]
    /\ config \in [comment_type : CommentTypes, comment_placement : CommentPlacements]
    /\ github_token \in BOOLEAN
    /\ ai_api_key \in BOOLEAN
    /\ pr_files = <<>>
    /\ reply = <<>>
    /\ llm_status = 0
    /\ review_suggestions = Unset
    /\ temp_exists = FALSE
    /\ temp_created = FALSE
    /\ output_written = FALSE
    /\ calls = <<>>
    /\ issue_comments = <<>>
    /\ reviews = <<>>
    /\ invoked = [summary |-> FALSE, line |-> FALSE]
    /\ exc = "none"
    /\ exit_status = -1
    /\ ConfigIdle

\* sys.exit(status), or the return of main()
Exit(status) ==
    /\ pc' = "exit"
    /\ exit_status' = status

\* an exception raised in the outer try block, outside the inner one
RaiseOuter(e) ==
    /\ pc' = "except"
    /\ exc' = e

\* an exception of the inner block that goes past the finally clause
RaiseInnerPastFinally(e) ==
    /\ pc' = "except"
    /\ exc' = e

\* an exception raised in the inner try block: the finally clause runs first
RaiseInner(e) ==
    /\ pc' = "finally"
    /\ exc' = e

\* --init: write the example config and return; the write is outside any try
InitMode ==
    /\ pc = "start"
    /\ IF args.init
       THEN \E written \in BOOLEAN : Exit(IF written THEN 0 ELSE 1)
       ELSE pc' = "check_token" /\ UNCHANGED exit_status
    /\ UNCHANGED config_vars
    /\ UNCHANGED <<args, config, github_token, ai_api_key, pr_files, reply,
                   llm_status, review_suggestions, temp_exists, temp_created,
                   output_written, calls, issue_comments, reviews, invoked, exc>>

CheckToken ==
    /\ pc = "check_token"
    /\ IF ~github_token THEN Exit(1) ELSE pc' = "check_key" /\ UNCHANGED exit_status
    /\ UNCHANGED config_vars
    /\ UNCHANGED <<args, config, github_token, ai_api_key, pr_files, reply,
                   llm_status, review_suggestions, temp_exists, temp_created,
                   output_written, calls, issue_comments, reviews, invoked, exc>>

\* the key check letting a run without a key go on
CheckApiKeySkipped ==
    /\ pc = "check_key"
    /\ pc' = "ci"
    /\ UNCHANGED config_vars
    /\ UNCHANGED <<args, config, github_token, ai_api_key, pr_files, reply,
                   llm_status, review_suggestions, temp_exists, temp_created,
                   output_written, calls, issue_comments, reviews, invoked, exc,
                   exit_status>>

CheckApiKey ==
    /\ pc = "check_key"
    /\ IF ~ai_api_key THEN Exit(1) ELSE pc' = "ci" /\ UNCHANGED exit_status
    /\ UNCHANGED config_vars
    /\ UNCHANGED <<args, config, github_token, ai_api_key, pr_files, reply,
                   llm_status, review_suggestions, temp_exists, temp_created,
                   output_written, calls, issue_comments, reviews, invoked, exc>>

\* under GitHub Actions the repository and the PR number fall back to the
\* environment (GITHUB_REPOSITORY, and GITHUB_REF of the form refs/pull/N/merge)
DeriveFromCI ==
    /\ pc = "ci"
    /\ \E github_actions \in BOOLEAN, github_repository \in BOOLEAN, pr_number \in BOOLEAN :
          args' = [args EXCEPT
                     !.repo = args.repo \/ (github_actions /\ github_repository),
                     !.pr   = args.pr \/ (github_actions /\ pr_number)]
    /\ pc' = "check_repo"
    /\ UNCHANGED config_vars
    /\ UNCHANGED <<config, github_token, ai_api_key, pr_files, reply, llm_status,
                   review_suggestions, temp_exists, temp_created, output_written,
                   calls, issue_comments, reviews, invoked, exc, exit_status>>

CheckRepoAndPr ==
    /\ pc = "check_repo"
    /\ IF ~args.repo \/ ~args.pr THEN Exit(1)
       ELSE pc' = "github_init" /\ UNCHANGED exit_status
    /\ UNCHANGED config_vars
    /\ UNCHANGED <<args, config, github_token, ai_api_key, pr_files, reply,
                   llm_status, review_suggestions, temp_exists, temp_created,
                   output_written, calls, issue_comments, reviews, invoked, exc>>

\* GitHubIntegration(token, repo): fetches the repository
GitHubInit ==
    /\ pc = "github_init"
    /\ calls' = Append(calls, "get_repo")
    /\ \E ok \in BOOLEAN :
          IF ok THEN pc' = "get_pr" /\ UNCHANGED exc
          ELSE RaiseOuter("GithubException")
    /\ UNCHANGED config_vars
    /\ UNCHANGED <<args, config, github_token, ai_api_key, pr_files, reply,
                   llm_status, review_suggestions, temp_exists, temp_created,
                   output_written, issue_comments, reviews, invoked, exit_status>>

GetPr ==
    /\ pc = "get_pr"
    /\ calls' = Append(calls, "get_pull")
    /\ \E ok \in BOOLEAN :
          IF ok THEN pc' = "get_pr_files" /\ UNCHANGED exc
          ELSE RaiseOuter("GithubException")
    /\ UNCHANGED config_vars
    /\ UNCHANGED <<args, config, github_token, ai_api_key, pr_files, reply,
                   llm_status, review_suggestions, temp_exists, temp_created,
                   output_written, issue_comments, reviews, invoked, exit_status>>

\* get_pr_files without the return of main() for a PR that changes no file
GetPrFilesWithoutEmptyCheck ==
    /\ pc = "get_pr_files"
    /\ \E outcome \in {"ok", "get_pr_fails", "get_files_fails"}, files \in {<<>>, <<"a">>} :
          /\ calls' = IF outcome = "get_pr_fails" THEN Append(calls, "get_pull")
                      ELSE calls \o <<"get_pull", "get_files">>
          /\ IF outcome # "ok"
             THEN RaiseOuter("GithubException") /\ UNCHANGED <<pr_files, exit_status>>
             ELSE /\ pr_files' = files
                  /\ pc' = "check_repomix"
                  /\ UNCHANGED <<exc, exit_status>>
    /\ UNCHANGED config_vars
    /\ UNCHANGED <<args, config, github_token, ai_api_key, reply, llm_status,
                   review_suggestions, temp_exists, temp_created, output_written,
                   issue_comments, reviews, invoked>>

\* get_pr_files, then the return of main() when the PR changes no file
GetPrFiles ==
    /\ pc = "get_pr_files"
    /\ \E outcome \in {"ok", "get_pr_fails", "get_files_fails"}, files \in {<<>>, <<"a">>} :
          /\ calls' = IF outcome = "get_pr_fails" THEN Append(calls, "get_pull")
                      ELSE calls \o <<"get_pull", "get_files">>
          /\ IF outcome # "ok"
             THEN RaiseOuter("GithubException") /\ UNCHANGED <<pr_files, exit_status>>
             ELSE /\ pr_files' = files
                  /\ UNCHANGED exc
                  /\ IF files = <<>> THEN Exit(0)
                     ELSE pc' = "check_repomix" /\ UNCHANGED exit_status
    /\ UNCHANGED config_vars
    /\ UNCHANGED <<args, config, github_token, ai_api_key, reply, llm_status,
                   review_suggestions, temp_exists, temp_created, output_written,
                   issue_comments, reviews, invoked>>

\* check_repomix_installed: runs the tool; a failure is only logged
CheckRepomix ==
    /\ pc = "check_repomix"
    /\ calls' = Append(calls, "npx_repomix_version")
    /\ pc' = "create_temp"
    /\ UNCHANGED config_vars
    /\ UNCHANGED <<args, config, github_token, ai_api_key, pr_files, reply,
                   llm_status, review_suggestions, temp_exists, temp_created,
                   output_written, issue_comments, reviews, invoked, exc,
                   exit_status>>

\* tempfile.NamedTemporaryFile(suffix='.xml', delete=False)
CreateTempFile ==
    /\ pc = "create_temp"
    /\ \E ok \in BOOLEAN :
          IF ok
          THEN /\ temp_exists' = TRUE
               /\ temp_created' = TRUE
               /\ pc' = "generate_xml"
               /\ UNCHANGED exc
          ELSE RaiseOuter("OSError") /\ UNCHANGED <<temp_exists, temp_created>>
    /\ UNCHANGED config_vars
    /\ UNCHANGED <<args, config, github_token, ai_api_key, pr_files, reply,
                   llm_status, review_suggestions, output_written, calls,
                   issue_comments, reviews, invoked, exit_status>>

\* generate_xml_for_pr: the tool writes the document over the temporary file;
\* a failed tool may leave the file or not, and a run that leaves no file fails
GenerateXml ==
    /\ pc = "generate_xml"
    /\ calls' = Append(calls, "npx_repomix")
    /\ \E tool_ok \in BOOLEAN, file_left \in BOOLEAN :
          /\ temp_exists' = file_left
          /\ IF tool_ok /\ file_left THEN pc' = "read_xml" /\ UNCHANGED exc
             ELSE IF ~tool_ok THEN RaiseInner("CalledProcessError")
             ELSE RaiseInner("FileNotFoundError")
    /\ UNCHANGED config_vars
    /\ UNCHANGED <<args, config, github_token, ai_api_key, pr_files, reply,
                   llm_status, review_suggestions, temp_created, output_written,
                   issue_comments, reviews, invoked, exit_status>>

ReadXml ==
    /\ pc = "read_xml"
    /\ \E ok \in BOOLEAN :
          IF ok THEN pc' = "analyze" /\ UNCHANGED exc
          ELSE RaiseInner("OSError")
    /\ UNCHANGED config_vars
    /\ UNCHANGED <<args, config, github_token, ai_api_key, pr_files, reply,
                   llm_status, review_suggestions, temp_exists, temp_created,
                   output_written, calls, issue_comments, reviews, invoked,
                   exit_status>>

\* analyze_code: one POST to the LLM endpoint, then the parse of its reply
AnalyzeCode ==
    /\ pc = "analyze"
    /\ calls' = Append(calls, "llm_post")
    /\ \/ \* the request fails before any response
          /\ RaiseInner("HTTPError")
          /\ UNCHANGED <<reply, llm_status, review_suggestions>>
       \/ \* a response other than 200
          /\ llm_status' = 500
          /\ RaiseInner("Exception")
          /\ UNCHANGED <<reply, review_suggestions>>
       \/ \E ai_response \in Replies :
             LET parsed == _parse_ai_response(ai_response)
             IN  /\ llm_status' = 200
                 /\ reply' = ai_response
                 /\ IF Raised(parsed)
                    THEN RaiseInner(parsed[2]) /\ UNCHANGED review_suggestions
                    ELSE /\ review_suggestions' = parsed[2]
                         /\ pc' = "write_output"
                         /\ UNCHANGED exc
    /\ UNCHANGED config_vars
    /\ UNCHANGED <<args, config, github_token, ai_api_key, pr_files, temp_exists,
                   temp_created, output_written, issue_comments, reviews,
                   invoked, exit_status>>

\* --output: json.dump of the review to the given path
WriteOutput ==
    /\ pc = "write_output"
    /\ IF args.output
       THEN \E ok \in BOOLEAN :
               IF ok THEN output_written' = TRUE /\ pc' = "publish_summary" /\ UNCHANGED exc
               ELSE RaiseInner("OSError") /\ UNCHANGED output_written
       ELSE pc' = "publish_summary" /\ UNCHANGED <<output_written, exc>>
    /\ UNCHANGED config_vars
    /\ UNCHANGED <<args, config, github_token, ai_api_key, pr_files, reply,
                   llm_status, review_suggestions, temp_exists, temp_created,
                   calls, issue_comments, reviews, invoked, exit_status>>

\* the summary policy asking for both settings
SummaryWantedByBoth == config.comment_type = "issue" /\ config.comment_placement = "pr"

SummaryWanted == config.comment_type = "issue" \/ config.comment_placement = "pr"

LineWanted == config.comment_type = "review" \/ config.comment_placement = "line"

\* post_review_comment, when the comment policy asks for it
PublishSummary ==
    /\ pc = "publish_summary"
    /\ IF ~SummaryWanted
       THEN /\ pc' = "publish_line"
            /\ UNCHANGED <<calls, issue_comments, invoked, exc>>
       ELSE /\ invoked' = [invoked EXCEPT !.summary = TRUE]
            /\ \E got_pr \in BOOLEAN, created \in BOOLEAN :
                  LET comment == _format_review_comment(review_suggestions)
                  IN  IF ~got_pr
                      THEN /\ calls' = Append(calls, "get_pull")
                           /\ RaiseInner("GithubException")
                           /\ UNCHANGED issue_comments
                      ELSE IF Raised(comment)
                      THEN /\ calls' = Append(calls, "get_pull")
                           /\ RaiseInner(comment[2])
                           /\ UNCHANGED issue_comments
                      ELSE /\ calls' = calls \o <<"get_pull", "create_issue_comment">>
                           /\ IF created
                              THEN /\ issue_comments' = Append(issue_comments, comment[2])
                                   /\ pc' = "publish_line"
                                   /\ UNCHANGED exc
                              ELSE RaiseInner("GithubException") /\ UNCHANGED issue_comments
    /\ UNCHANGED config_vars
    /\ UNCHANGED <<args, config, github_token, ai_api_key, pr_files, reply,
                   llm_status, review_suggestions, temp_exists, temp_created,
                   output_written, reviews, exit_status>>

\* post_line_comments, when the comment policy asks for it
PublishLine ==
    /\ pc = "publish_line"
    /\ IF ~LineWanted
       THEN /\ pc' = "finally"
            /\ UNCHANGED <<calls, reviews, invoked, exc>>
       ELSE /\ invoked' = [invoked EXCEPT !.line = TRUE]
            /\ \E got_pr \in BOOLEAN, created \in BOOLEAN :
                  LET review == LineReview(review_suggestions)
                  IN  IF ~got_pr
                      THEN /\ calls' = Append(calls, "get_pull")
                           /\ RaiseInner("GithubException")
                           /\ UNCHANGED reviews
                      ELSE IF Raised(review)
                      THEN /\ calls' = Append(calls, "get_pull")
                           /\ RaiseInner(review[2])
                           /\ UNCHANGED reviews
                      ELSE IF ~review[2].submit
                      THEN /\ calls' = Append(calls, "get_pull")
                           /\ pc' = "finally"
                           /\ UNCHANGED <<reviews, exc>>
                      ELSE /\ calls' = calls \o <<"get_pull", "create_review">>
                           /\ IF created
                              THEN /\ reviews' = Append(reviews, review[2])
                                   /\ pc' = "finally"
                                   /\ UNCHANGED exc
                              ELSE RaiseInner("GithubException") /\ UNCHANGED reviews
    /\ UNCHANGED config_vars
    /\ UNCHANGED <<args, config, github_token, ai_api_key, pr_files, reply,
                   llm_status, review_suggestions, temp_exists, temp_created,
                   output_written, issue_comments, exit_status>>

\* the finally clause: remove the temporary file if it is there; then main()
\* returns, or the exception goes on to the outer handler
Finally ==
    /\ pc = "finally"
    /\ temp_exists' = FALSE
    /\ IF exc = "none" THEN Exit(0) ELSE pc' = "except" /\ UNCHANGED exit_status
    /\ UNCHANGED config_vars
    /\ UNCHANGED <<args, config, github_token, ai_api_key, pr_files, reply,
                   llm_status, review_suggestions, temp_created, output_written,
                   calls, issue_comments, reviews, invoked, exc>>

\* an outer handler that logs the error and lets main() return
ExceptSwallowed ==
    /\ pc = "except"
    /\ Exit(0)
    /\ UNCHANGED config_vars
    /\ UNCHANGED <<args, config, github_token, ai_api_key, pr_files, reply,
                   llm_status, review_suggestions, temp_exists, temp_created,
                   output_written, calls, issue_comments, reviews, invoked, exc>>

\* except Exception: log the error and sys.exit(1)
Except ==
    /\ pc = "except"
    /\ Exit(1)
    /\ UNCHANGED config_vars
    /\ UNCHANGED <<args, config, github_token, ai_api_key, pr_files, reply,
                   llm_status, review_suggestions, temp_exists, temp_created,
                   output_written, calls, issue_comments, reviews, invoked, exc>>

Next ==
    \/ InitMode
    \/ CheckToken
    \/ CheckApiKey
    \/ DeriveFromCI
    \/ CheckRepoAndPr
    \/ GitHubInit
    \/ GetPr
    \/ GetPrFiles
    \/ CheckRepomix
    \/ CreateTempFile
    \/ GenerateXml
    \/ ReadXml
    \/ AnalyzeCode
    \/ WriteOutput
    \/ PublishSummary
    \/ PublishLine
    \/ Finally
    \/ Except

Spec == Init /\ [][Next]_vars

----------------------------------------------------------------------------
(* The reply parser on its own: every free-form reply, parsed once *)

InitParse ==
    /\ pc = "parse"
    /\ reply \in FreeReplies
    /\ args = [init |-> FALSE, repo |-> TRUE, pr |-> TRUE, output |-> FALSE]
    /\ config = [comment_type |-> "issue", comment_placement |-> "pr"]
    /\ github_token = TRUE
    /\ ai_api_key = TRUE
    /\ pr_files = <<"a">>
    /\ llm_status = 200
    /\ review_suggestions = Unset
    /\ temp_exists = FALSE
    /\ temp_created = FALSE
    /\ output_written = FALSE
    /\ calls = <<>>
    /\ issue_comments = <<>>
    /\ reviews = <<>>
    /\ invoked = [summary |-> FALSE, line |-> FALSE]
    /\ exc = "none"
    /\ exit_status = -1
    /\ ConfigIdle

ParseResponse ==
    /\ pc = "parse"
    /\ LET parsed == _parse_ai_response(reply)
       IN  IF Raised(parsed)
           THEN pc' = "raised" /\ exc' = parsed[2] /\ UNCHANGED review_suggestions
           ELSE pc' = "parsed" /\ review_suggestions' = parsed[2] /\ UNCHANGED exc
    /\ UNCHANGED config_vars
    /\ UNCHANGED <<args, config, github_token, ai_api_key, pr_files, reply,
                   llm_status, temp_exists, temp_created, output_written, calls,
                   issue_comments, reviews, invoked, exit_status>>

NextParse == ParseResponse

SpecParse == InitParse /\ [][NextParse]_vars

----------------------------------------------------------------------------
(* ConfigManager._merge_configs on its own: every pair of a default config  *)
(* and a user config, merged once                                           *)

K_github == <<"g", "i", "t", "h", "u", "b">>

K_comment_type == <<"c", "o", "m", "m", "e", "n", "t", "_", "t", "y", "p", "e">>

\* the keys of a config, at the top level and inside a section
ConfigKeys == <<K_github, K_comment_type>>

\* config.update(user_config): the sections of the user replace the default
\* ones whole
MergeReplacingSections(default_config_, user_config_) ==
    IF ~IsDict(default_config_) \/ ~IsDict(user_config_) THEN Raise("AttributeError")
    ELSE LET Update[i \in 0..Len(Val(user_config_))] ==
                 IF i = 0 THEN Val(default_config_)
                 ELSE DictSet(Update[i - 1], Val(user_config_)[i][1], Val(user_config_)[i][2])
         IN  Return(Obj(Update[Len(Val(user_config_))]))

RECURSIVE MergeItems(_, _, _)
\* the loop of _merge_configs over user_config.items(), from item i on:
\* config is the pair list of the copy being filled
MergeItems(config_, items, i) ==
    IF i > Len(items) THEN config_
    ELSE LET key   == items[i][1]
             value == items[i][2]
             old   == DictGet(Obj(config_), key, Unset)
         IN  IF HasKey(Obj(config_), key) /\ IsDict(old) /\ IsDict(value)
             THEN MergeItems(DictSet(config_, key,
                                     Obj(MergeItems(Val(old), Val(value), 1))),
                             items, i + 1)
             ELSE MergeItems(DictSet(config_, key, value), items, i + 1)

\* _merge_configs(default_config, user_config): the merged dict, or the
\* AttributeError of .copy() / .items() on a value that has none
_merge_configs(default_config_, user_config_) ==
    IF ~IsDict(default_config_) \/ ~IsDict(user_config_) THEN Raise("AttributeError")
    ELSE Return(Obj(MergeItems(Val(default_config_), Val(user_config_), 1)))

RECURSIVE DictsOver(_, _)
\* the pair lists that give each key of keys, in order, a value of values or
\* leave it out
DictsOver(keys, values) ==
    IF Len(keys) = 0 THEN {<<>>}
    ELSE LET rest == DictsOver(Tail(keys), values)
         IN  rest \cup {<< <<Head(keys), v>> >> \o r : v \in values, r \in rest}

\* the configs of two levels whose settings are taken from leaves
ConfigsOver(leaves) ==
    LET sections == {Obj(p) : p \in DictsOver(ConfigKeys, leaves)}
    IN  {Obj(p) : p \in DictsOver(ConfigKeys, leaves \cup sections)}

\* the default configs: every setting is 0
DefaultConfigs == ConfigsOver({Num(0)})

\* the user configs as yaml.safe_load gives them: settings that are None or
\* a positive int, and two documents that are no mapping
UserConfigs ==
    ConfigsOver({None} \cup {Num(n) : n \in 1..MaxConfigValue})
    \cup {None, Str(<<"x">>)}

\* main() and its collaborators at rest
MainIdle ==
    /\ args = [init |-> FALSE, repo |-> FALSE, pr |-> FALSE, output |-> FALSE]
    /\ config = [comment_type |-> "issue", comment_placement |-> "pr"]
    /\ github_token = FALSE
    /\ ai_api_key = FALSE
    /\ pr_files = <<>>
    /\ reply = <<>>
    /\ llm_status = 0
    /\ review_suggestions = Unset
    /\ temp_exists = FALSE
    /\ temp_created = FALSE
    /\ output_written = FALSE
    /\ calls = <<>>
    /\ issue_comments = <<>>
    /\ reviews = <<>>
    /\ invoked = [summary |-> FALSE, line |-> FALSE]
    /\ exc = "none"
    /\ exit_status = -1

InitMerge ==
    /\ pc = "merge"
    /\ default_config \in DefaultConfigs
    /\ user_config \in UserConfigs
    /\ self_config = Unset
    /\ pr_description = None
    /\ review_focus = Unset
    /\ MainIdle

MergeConfigs ==
    /\ pc = "merge"
    /\ LET merged == _merge_configs(default_config, user_config)
       IN  IF Raised(merged)
           THEN pc' = "raised" /\ exc' = merged[2] /\ UNCHANGED self_config
           ELSE pc' = "merged" /\ self_config' = merged[2] /\ UNCHANGED exc
    /\ UNCHANGED <<default_config, user_config, pr_description, review_focus>>
    /\ UNCHANGED <<args, config, github_token, ai_api_key, pr_files, reply,
                   llm_status, review_suggestions, temp_exists, temp_created,
                   output_written, calls, issue_comments, reviews, invoked,
                   exit_status>>

NextMerge == MergeConfigs

SpecMerge == InitMerge /\ [][NextMerge]_vars

----------------------------------------------------------------------------
(* ConfigManager.parse_pr_focus and get_review_focus on their own: every    *)
(* PR description against a config with and without review_focus           *)

K_review_focus == <<"r", "e", "v", "i", "e", "w", "_", "f", "o", "c", "u", "s">>

\* the literal text the pattern of parse_pr_focus starts with
MARKER == <<"A", "I", "-", "R", "E", "V", "I", "E", "W", "-",
            "F", "O", "C", "U", "S", ":">>

\* the characters of the model's alphabet that \w matches
WORD_CHARS == DIGITS \cup {"_", "a", "b", "c", "x",
                           "A", "I", "R", "E", "V", "W", "F", "O", "C", "U", "S"}

\* the offset of the first character of s at or after offset i that is not
\* in chars, Len(s) when there is none
SkipWhile(s, i, chars) ==
    LET stops == {k \in i..(Len(s) - 1) : s[k + 1] \notin chars}
    IN  IF stops = {} THEN Max({i, Len(s)}) ELSE Min(stops)

\* the offset of the first character of s at or after offset i that is in
\* chars, Len(s) when there is none
SkipUntil(s, i, chars) ==
    LET stops == {k \in i..(Len(s) - 1) : s[k + 1] \in chars}
    IN  IF stops = {} THEN Max({i, Len(s)}) ELSE Min(stops)

RECURSIVE FindTags(_, _, _)
\* re.findall(r'#(\w+)', s) from offset i on: the word after each # that has
\* one, left to right, without overlap
FindTags(s, i, tags) ==
    LET at == SkipUntil(s, i, {"#"})
    IN  IF at >= Len(s) THEN tags
        ELSE LET end == SkipWhile(s, at + 1, WORD_CHARS)
             IN  IF end = at + 1 THEN FindTags(s, at + 1, tags)
                 ELSE FindTags(s, end, Append(tags, Str(Slice(s, at + 1, end))))

\* group(1) of re.search(r'AI-REVIEW-FOCUS:\s*(.*?)(?:\n|$)', s) for a text
\* that holds the marker: after the first marker \s* takes all the
\* whitespace there is, line ends included, and the group runs to the next
\* line end or to the end of the text
FocusMatch(s) ==
    LET start == SkipWhile(s, Find(s, MARKER) + Len(MARKER), WHITESPACE)
    IN  Slice(s, start, SkipUntil(s, start, {"\n"}))

\* parse_pr_focus(pr_description): the list of the tags
parse_pr_focus(pr_description_) ==
    IF ~Truthy(pr_description_) THEN Return(Arr(<<>>))
    ELSE IF ~IsStr(pr_description_) THEN Raise("TypeError")
    ELSE IF Find(Val(pr_description_), MARKER) = -1 THEN Return(Arr(<<>>))
    ELSE Return(Arr(FindTags(Strip(FocusMatch(Val(pr_description_))), 0, <<>>)))

\* get_review_focus(pr_description) on the config config_
get_review_focus(config_, pr_description_) ==
    LET default_focus == DictGet(config_, K_review_focus, Arr(<<>>))
        pr_focus == IF Truthy(pr_description_) THEN parse_pr_focus(pr_description_)
                    ELSE Return(Arr(<<>>))
    IN  IF Raised(pr_focus) THEN pr_focus
        ELSE IF Truthy(pr_focus[2]) THEN pr_focus ELSE Return(default_focus)

\* the pieces a free-form PR description is made of
DescTokens == {MARKER, <<"#", "a">>, <<"#", "b">>, <<"#">>, <<" ">>, <<"\n">>, <<"x">>}

\* the bodies of a PR: none, every text of at most MaxDescTokens pieces, a
\* marker line between two others, and two marker lines of which the second
\* has the tags
Descriptions ==
    {None}
    \cup {Str(Flatten(t)) : t \in SeqsUpTo(DescTokens, MaxDescTokens)}
    \cup {Str(<<"x", "\n">> \o MARKER \o <<" ", "#", "a", " ", "#", "b", "\n", "x">>),
          Str(MARKER \o <<"x", "\n">> \o MARKER \o <<"#", "a">>)}

\* the effective configs: without review_focus, and with a list of two tags
FocusConfigs ==
    {Obj(<<>>),
     Obj(<< <<K_review_focus, Arr(<<Str(<<"a">>), Str(<<"c">>)>>)>> >>)}

InitFocus ==
    /\ pc = "focus"
    /\ self_config \in FocusConfigs
    /\ pr_description \in Descriptions
    /\ review_focus = Unset
    /\ default_config = Unset
    /\ user_config = Unset
    /\ MainIdle

GetReviewFocus ==
    /\ pc = "focus"
    /\ LET focus == get_review_focus(self_config, pr_description)
       IN  IF Raised(focus)
           THEN pc' = "raised" /\ exc' = focus[2] /\ UNCHANGED review_focus
           ELSE pc' = "focused" /\ review_focus' = focus[2] /\ UNCHANGED exc
    /\ UNCHANGED <<default_config, user_config, self_config, pr_description>>
    /\ UNCHANGED <<args, config, github_token, ai_api_key, pr_files, reply,
                   llm_status, review_suggestions, temp_exists, temp_created,
                   output_written, calls, issue_comments, reviews, invoked,
                   exit_status>>

NextFocus == GetReviewFocus

SpecFocus == InitFocus /\ [][NextFocus]_vars

----------------------------------------------------------------------------
(* Properties of the reply parser (checked under SpecParse) *)

ValidJson(t) == JsonLoads(t)[1] = "ok"

ParseDone == pc \in {"parsed", "raised"}

\* an opening json fence at offset i and a closing fence at offset j
FencedJsonAt(t, i, j) ==
    /\ OccursAt(t, JSON_FENCE, i)
    /\ OccursAt(t, FENCE, j)
    /\ j >= i + 7
    /\ ValidJson(Slice(t, i + 7, j))

HasFencedJson(t) == \E i \in 0..Len(t), j \in 0..Len(t) : FencedJsonAt(t, i, j)

\* the fenced block of a reply, read as Markdown reads it: from the first
\* json fence to the first fence after it
BlockOpen(t) == Find(t, JSON_FENCE)

BlockCloses(t) == {j \in 0..Len(t) : OccursAt(t, FENCE, j) /\ j >= BlockOpen(t) + 7}

HasBlock(t) == BlockOpen(t) # -1 /\ BlockCloses(t) # {}

BlockContent(t) == Slice(t, BlockOpen(t) + 7, Min(BlockCloses(t)))

IsDegraded(v) == IsDict(v) /\ HasKey(v, K_raw_response)

\* C2: a reply that holds no fenced JSON and is no JSON text as a whole is
\* parsed without an exception into a result whose overall_assessment is the
\* undetermined value and whose raw_response is the reply, character for
\* character.
C2_UnparseableReplyIsKeptVerbatim ==
    (ParseDone /\ ~HasFencedJson(reply) /\ ~ValidJson(reply))
    => /\ pc = "parsed"
       /\ IsDict(review_suggestions)
       /\ DictGet(review_suggestions, K_overall_assessment, None) = Str(UNDETERMINED)
       /\ DictGet(review_suggestions, K_raw_response, None) = Str(reply)

\* a reply with a json fence whose content is no JSON has been absorbed
C2_Witness ==
    /\ pc = "parsed"
    /\ ~HasFencedJson(reply) /\ ~ValidJson(reply)
    /\ Find(reply, JSON_FENCE) # -1
    /\ Len(reply) > 10
    /\ reply[1] = " "
    /\ DictGet(review_suggestions, K_raw_response, None) = Str(reply)

\* C3: a reply that holds a json fenced block with valid JSON inside is parsed
\* into exactly the value inside the block, whatever text stands before the
\* opening fence and after the closing one.
C3_FencedJsonIsReturned ==
    (ParseDone /\ HasBlock(reply) /\ ValidJson(BlockContent(reply)))
    => /\ pc = "parsed"
       /\ review_suggestions = JsonLoads(BlockContent(reply))[2]

\* C4: a reply without a fenced JSON block that is JSON as a whole is parsed
\* into that value, and the degraded result is returned only when both the
\* parse of the fenced block and the parse of the whole reply fail.
C4_ThreeStageFallback ==
    ParseDone
    => /\ (~HasBlock(reply) /\ ValidJson(reply))
             => review_suggestions = JsonLoads(reply)[2]
       /\ IsDegraded(review_suggestions)
             => /\ ~ValidJson(reply)
                /\ ~(HasBlock(reply) /\ ValidJson(BlockContent(reply)))

----------------------------------------------------------------------------
(* Properties of a run (checked under Spec) *)

Range(q) == {q[k] : k \in 1..Len(q)}

\* the exceptions that come from outside the program: the platform API, the
\* LLM endpoint, the external tool and the file system
ExternalFailures ==
    {"GithubException", "OSError", "HTTPError", "Exception",
     "CalledProcessError", "FileNotFoundError"}

Suggestions(review) == Val(DictGet(review, K_suggestions, Arr(<<>>)))

\* a ReviewResult of the data model: a record with a text summary and a list
\* of records, each with a text description if it has one
WellTyped(review) ==
    /\ IsDict(review)
    /\ IsStr(DictGet(review, K_summary, Str(<<>>)))
    /\ IsList(DictGet(review, K_suggestions, Arr(<<>>)))
    /\ \A k \in 1..Len(Suggestions(review)) :
          /\ IsDict(Suggestions(review)[k])
          /\ IsStr(DictGet(Suggestions(review)[k], K_description, Str(<<>>)))

\* the text of a line value that is an int or a str
LineText(l) == IF IsInt(l) THEN IntToStr(Val(l)) ELSE Val(l)

\* the anchor line the line policy gives a line value, 0 when it gives none:
\* the number itself for decimal digits, the number before the first hyphen
\* for a range
AnchorOf(l) ==
    IF ~(IsInt(l) \/ IsStr(l)) THEN 0
    ELSE LET t       == LineText(l)
             hyphens == {k \in 1..Len(t) : t[k] = "-"}
         IN  IF IsDecimal(t) THEN DigitsToInt(t)
             ELSE IF hyphens = {} THEN 0
             ELSE LET first == Strip(SubSeq(t, 1, Min(hyphens) - 1))
                  IN  IF IsDecimal(first) THEN DigitsToInt(first) ELSE 0

Eligible(suggestion) ==
    /\ HasKey(suggestion, K_file)
    /\ HasKey(suggestion, K_line)
    /\ AnchorOf(DictGet(suggestion, K_line, None)) > 0

EligibleItems(review) == SelectSeq(Suggestions(review), Eligible)

\* post_line_comments has run and no call to the platform failed in it
LinePublishRan ==
    /\ invoked.line
    /\ pc \in {"finally", "except", "exit"}
    /\ exc # "GithubException"

\* a review with one suggestion, which has a file and a line
SoleSuggestion(review) ==
    /\ WellTyped(review)
    /\ Len(Suggestions(review)) = 1
    /\ HasKey(Suggestions(review)[1], K_file)
    /\ HasKey(Suggestions(review)[1], K_line)

SoleLine == DictGet(Suggestions(review_suggestions)[1], K_line, None)

\* the run got as far as the publish stage
ReachedPublish ==
    /\ review_suggestions # Unset
    /\ args.output => output_written
    /\ pc # "write_output"

\* C1: whatever the text of a reply that came with status 200, a run in which
\* no call to the outside fails ends with exit status 0.
C1_NoReplyAbortsRun ==
    (pc = "exit" /\ llm_status = 200 /\ exc \notin ExternalFailures)
    => exit_status = 0

\* C5: a line value that is an integer or a string of digits anchors the
\* comment at that number, a value with a hyphen at the number before the
\* hyphen, and any other value gives no comment and no error.
C5_LineFieldPolicy ==
    (LinePublishRan /\ SoleSuggestion(review_suggestions))
    => /\ exc = "none"
       /\ LET number == IF IsInt(SoleLine) THEN Val(SoleLine)
                        ELSE DigitsToInt(Val(SoleLine))
          IN  IF IsInt(SoleLine) \/ (IsStr(SoleLine) /\ IsDecimal(Val(SoleLine)))
              THEN /\ Len(reviews) = 1
                   /\ Len(reviews[1].comments) = 1
                   /\ reviews[1].comments[1].line = number
              ELSE IF AnchorOf(SoleLine) > 0
              THEN /\ Len(reviews) = 1
                   /\ reviews[1].comments[1].line = AnchorOf(SoleLine)
              ELSE reviews = <<>>

\* section i of the summary comment: the header "### i. "
Rendered(comment, i) ==
    \E k \in 1..(Len(comment) - 1) :
        comment[k] = Lit("### ") /\ comment[k + 1] = Fmt(Num(i))

C7_NoEligibleSuggestionNoReview ==
    /\ (invoked.line /\ pc \in {"finally", "except", "exit"}
        /\ WellTyped(review_suggestions) /\ Len(EligibleItems(review_suggestions)) = 0)
       => /\ "create_review" \notin Range(calls)
          /\ reviews = <<>>
          /\ exc \in {"none", "GithubException"}
          /\ (exc = "none" /\ pc = "exit") => exit_status = 0
    /\ "create_review" \in Range(calls)
       => /\ IsDict(review_suggestions)
          /\ IsList(DictGet(review_suggestions, K_suggestions, Arr(<<>>)))
          /\ \E k \in 1..Len(Suggestions(review_suggestions)) :
                /\ IsDict(Suggestions(review_suggestions)[k])
                /\ Eligible(Suggestions(review_suggestions)[k])

\* C8 (as stated): in a run that reached the publish stage the summary comment
\* is published exactly when type = issue or placement = pr, and the line
\* publish is invoked exactly when type = review or placement = line.
C8_PublishPolicyAsStated ==
    (pc = "exit" /\ ReachedPublish)
    => /\ invoked.summary <=> SummaryWanted
       /\ invoked.line <=> LineWanted

\* C8 (amended): in a run that reached the publish stage the summary publish
\* is invoked exactly when type = issue or placement = pr, and the line
\* publish is invoked exactly when type = review or placement = line and the
\* summary publish, if it was invoked, did not fail.
C8_PublishPolicy ==
    (pc = "exit" /\ ReachedPublish)
    => /\ invoked.summary <=> (config.comment_type = "issue" \/ config.comment_placement = "pr")
       /\ issue_comments # <<>> => invoked.summary
       /\ invoked.line <=>
            /\ config.comment_type = "review" \/ config.comment_placement = "line"
            /\ invoked.summary => Len(issue_comments) = 1

\* type = issue with placement = line: both publish operations in one run
C8_Witness ==
    /\ pc = "exit" /\ ReachedPublish
    /\ config = [comment_type |-> "issue", comment_placement |-> "line"]
    /\ invoked.summary /\ invoked.line
    /\ Len(issue_comments) = 1 /\ Len(reviews) = 1

\* C9 (as stated): a run without a token, or without a key, ends with exit
\* status 1 and has made no network call.
C9_MissingCredentialAsStated ==
    (pc = "exit" /\ (~github_token \/ ~ai_api_key))
    => exit_status = 1 /\ calls = <<>>

\* C9 (amended): a run without --init that lacks the token, or the key, makes
\* no network call at any time and ends with exit status 1.
C9_MissingCredential ==
    (~args.init /\ (~github_token \/ ~ai_api_key))
    => /\ calls = <<>>
       /\ pc \in {"start", "check_token", "check_key", "exit"}
       /\ pc = "exit" => exit_status = 1

\* a run with a token and without a key has exited with status 1
C9_Witness ==
    /\ pc = "exit" /\ exit_status = 1
    /\ ~args.init /\ github_token /\ ~ai_api_key
    /\ calls = <<>>

\* C10: a run that created the temporary file exits with the file removed.
C10_TempFileRemoved ==
    (pc = "exit" /\ temp_created) => ~temp_exists

\* a run whose line publish failed after the file was created has exited
C10_Witness ==
    /\ pc = "exit" /\ temp_created /\ ~temp_exists
    /\ invoked.line /\ exc = "GithubException"
    /\ exit_status = 1

\* a call to the outside has failed and its exception is on its way out
ExternalFailure == exc \in ExternalFailures

\* the LLM call failed: no response, or a response other than 200
LlmCallFailed == exc = "HTTPError" \/ (llm_status # 0 /\ llm_status # 200)

\* the summary publish was invoked and failed on a call to the platform
SummaryPublishFailed ==
    /\ invoked.summary
    /\ issue_comments = <<>>
    /\ exc = "GithubException"

\* the steps left to a run whose call to the outside failed: the finally
\* clause and the outer handler, which call nothing, publish nothing, write
\* nothing and end the process with a status other than 0
TerminalStep ==
    /\ calls' = calls
    /\ issue_comments' = issue_comments
    /\ reviews' = reviews
    /\ invoked' = invoked
    /\ output_written' = output_written
    /\ review_suggestions' = review_suggestions
    /\ temp_created' = temp_created
    /\ exc' = exc
    /\ pc' \in {"except", "exit"}
    /\ pc' = "exit" => exit_status' # 0

ReviewSubmitted == Len(reviews) = 1 /\ WellTyped(review_suggestions)

\* C14 (as stated): the body of the review submission is the text the summary
\* formatting gives for the same ReviewResult.
C14_ReviewBodyIsSummaryFormat ==
    ReviewSubmitted
    => reviews[1].body = _format_review_comment(review_suggestions)[2]

\* C14 (amended): the body of the review submission is the title, the overall
\* assessment and the summary text and nothing else; it starts as the summary
\* comment does, and lacks the summary heading, the section of each
\* suggestion and the footer, so it is never the text of the summary
\* formatting.
C14_ReviewBodyIsShortHeader ==
    ReviewSubmitted
    => LET body    == reviews[1].body
           comment == _format_review_comment(review_suggestions)[2]
       IN  /\ body = <<Lit("# AI code review\n\n"),
                       Lit("**overall assessment**: "),
                       Fmt(DictGet(review_suggestions, K_overall_assessment,
                                   Str(<<"(no assessment)">>))),
                       Lit("\n\n"),
                       Fmt(DictGet(review_suggestions, K_summary,
                                   Str(<<"(no summary)">>)))>>
           /\ SubSeq(comment, 1, 4) = SubSeq(body, 1, 4)
           /\ comment[5] = Lit("## summary\n\n")
           /\ comment[6] = body[5]
           /\ Lit("## suggestions\n\n") \in Range(comment) \ Range(body)
           /\ comment[Len(comment)] # body[Len(body)]
           /\ body # comment

\* a run that published the summary comment and the review of the same
\* ReviewResult: the two texts differ
C14_Witness ==
    /\ ReviewSubmitted
    /\ Len(issue_comments) = 1
    /\ issue_comments[1] = _format_review_comment(review_suggestions)[2]
    /\ Len(reviews[1].body) = 5
    /\ Len(issue_comments[1]) > 5
    /\ Len(reviews[1].comments) = 2

\* the changed-file list of the PR was fetched and is empty
EmptyFileListFetched ==
    /\ "get_files" \in Range(calls)
    /\ exc = "none"
    /\ pr_files = <<>>

\* C15: a run with the credentials, the repository and the PR number whose
\* PR has an empty changed-file list goes from the fetch of the list straight
\* to its end with exit status 0: no tool run, no temporary file, no LLM call,
\* no output file, no comment and no review.
C15_EmptyFileListEndsRun ==
    (github_token /\ ai_api_key /\ args.repo /\ args.pr /\ EmptyFileListFetched)
    => /\ pc = "exit"
       /\ exit_status = 0
       /\ exc = "none"
       /\ calls = <<"get_repo", "get_pull", "get_pull", "get_files">>
       /\ ~temp_created /\ ~temp_exists
       /\ ~output_written
       /\ llm_status = 0 /\ review_suggestions = Unset
       /\ ~invoked.summary /\ ~invoked.line
       /\ issue_comments = <<>> /\ reviews = <<>>

\* a run asked to save its output has ended on the empty file list
C15_Witness ==
    /\ pc = "exit" /\ exit_status = 0
    /\ ~args.init /\ args.output
    /\ github_token /\ ai_api_key /\ args.repo /\ args.pr
    /\ EmptyFileListFetched
    /\ ~output_written

----------------------------------------------------------------------------
(* Properties of the config merge (checked under SpecMerge) *)

\* the paths of at most two keys
ConfigPaths == {<<>>} \cup {<<ConfigKeys[i]>> : i \in 1..Len(ConfigKeys)}
               \cup {<<ConfigKeys[i], ConfigKeys[j]>> :
                        i \in 1..Len(ConfigKeys), j \in 1..Len(ConfigKeys)}

RECURSIVE Lookup(_, _)
\* the value a config holds at a path of keys, Unset when it holds none
Lookup(v, path) ==
    IF Len(path) = 0 THEN v
    ELSE IF IsDict(v) /\ HasKey(v, Head(path))
         THEN Lookup(DictGet(v, Head(path), Unset), Tail(path))
         ELSE Unset

Parent(path) == SubSeq(path, 1, Len(path) - 1)

\* C11: in the config _merge_configs returns for two nested mappings, a key
\* of the override, at any level, carries the value of the override: that
\* very value when it is no dict or when the default has no dict there, a
\* dict holding the keys of both otherwise; a key the override leaves out of
\* a mapping it has keeps the value of the default; and the result has no
\* key from elsewhere.
C11_MergeKeepsOverridesAndDefaults ==
    (pc \in {"merged", "raised"} /\ IsDict(user_config))
    => /\ pc = "merged"
       /\ \A p \in ConfigPaths :
            LET d == Lookup(default_config, p)
                u == Lookup(user_config, p)
                m == Lookup(self_config, p)
            IN  /\ (u # Unset /\ ~(IsDict(u) /\ IsDict(d))) => m = u
                /\ (u # Unset /\ IsDict(u) /\ IsDict(d)) => IsDict(m)
                /\ (Len(p) > 0 /\ d # Unset /\ u = Unset
                    /\ IsDict(Lookup(user_config, Parent(p)))) => m = d
                /\ (m # Unset) => (u # Unset \/ d # Unset)

\* a section of the user has been merged into the section of the default:
\* the merged section holds a setting of each
C11_Witness ==
    /\ pc = "merged"
    /\ Lookup(default_config, <<K_github, K_github>>) = Num(0)
    /\ Lookup(user_config, <<K_github, K_github>>) = Unset
    /\ Lookup(user_config, <<K_github, K_comment_type>>) = Num(1)
    /\ Lookup(default_config, <<K_github, K_comment_type>>) = Num(0)
    /\ Lookup(self_config, <<K_github>>)
         = Obj(<< <<K_github, Num(0)>>, <<K_comment_type, Num(1)>> >>)

----------------------------------------------------------------------------
(* Properties of the review focus (checked under SpecFocus) *)

\* the lines of a text: the pieces between its line ends
Lines(t) ==
    LET ends   == {k \in 1..Len(t) : t[k] = "\n"}
        bounds == {0} \cup ends \cup {Len(t) + 1}
        Nth[n \in 1..Cardinality(bounds)] ==
            IF n = 1 THEN 0 ELSE Min({b \in bounds : b > Nth[n - 1]})
    IN  [n \in 1..(Cardinality(bounds) - 1) |-> SubSeq(t, Nth[n] + 1, Nth[n + 1] - 1)]

\* the tags that follow the marker on a line that has it
MarkerLineTags(line) ==
    FindTags(Slice(line, Find(line, MARKER) + Len(MARKER), Len(line)), 0, <<>>)

\* the lines of a text that hold the marker
MarkerLines(t) == {n \in 1..Len(Lines(t)) : Find(Lines(t)[n], MARKER) # -1}

\* the marker lines on which tags follow the marker
TaggedMarkerLines(t) == {n \in MarkerLines(t) : MarkerLineTags(Lines(t)[n]) # <<>>}

DefaultFocus == DictGet(self_config, K_review_focus, Arr(<<>>))

\* C12: get_review_focus never merges: for a description with a marker line
\* that has tags the result is the tags of that line, for a description
\* without the marker (or an empty one) parse_pr_focus gives the empty list
\* and the result is the configured list, and the result is always one or the
\* other: the configured list, or the tags of a marker line.
C12_FocusIsNeverMerged ==
    pc \in {"focused", "raised"}
    => /\ pc = "focused"
       /\ (IsStr(pr_description) /\ TaggedMarkerLines(Val(pr_description)) # {})
          => \E n \in TaggedMarkerLines(Val(pr_description)) :
                review_focus = Arr(MarkerLineTags(Lines(Val(pr_description))[n]))
       /\ (~IsStr(pr_description) \/ Find(Val(pr_description), MARKER) = -1)
          => /\ parse_pr_focus(pr_description) = Return(Arr(<<>>))
             /\ review_focus = DefaultFocus
       /\ \/ review_focus = DefaultFocus
          \/ /\ IsStr(pr_description)
             /\ \E n \in MarkerLines(Val(pr_description)) :
                   review_focus = Arr(MarkerLineTags(Lines(Val(pr_description))[n]))

====
